---------------------------- MODULE Spec2Model ----------------------------
(***************************************************************************)
(* Model of rust-vk-scrapper: the POST / POST_INFO relations, the          *)
(* get_or_create_post_with_prolong transaction, the POST /polling handler, *)
(* the scheduler's job registry and the poll_post_stats tick.              *)
(*                                                                         *)
(* Time is the reading of the database clock (CURRENT_TIMESTAMP), one unit *)
(* per clock step.  Inside a transaction CURRENT_TIMESTAMP is the time the *)
(* transaction began; in an autocommit statement it is the current time.   *)
(***************************************************************************)
EXTENDS Integers, Sequences, FiniteSets, TLC

\* ------------------------------------------------------------ bounds
MaxTime == 4
NumProcs == 2
MaxReq == 2
MaxInfo == 3
\* Rows of POST in the store a process starts on.
MaxStart == 3

\* --------------------------------------------------------- configuration
\* The environment variables POOLING_PERIOD_SECONDS and
\* POOLING_DELTA_SECONDS as set for the run of Init (one time unit = one
\* clock step).
POOLING_PERIOD_SECONDS == 3

POOLING_DELTA_SECONDS == 1

Procs == 1..NumProcs

WallPrefix == "https://vk.com/wall"

\* A link is <<prefix, rest>>: the text before and after the place where
\* the required prefix ends.
Links == { <<WallPrefix, "-1_1">>, <<WallPrefix, "-2_2">>,
           <<"https://vk.com/", "post123">> }

None == "none"

\* Mutant: the rest of the link is taken whatever comes before it.
strip_prefix_Lenient(link) == link[2]

\* endpoints.rs: request.vk_link.strip_prefix("https://vk.com/wall")
strip_prefix(link) == IF link[1] = WallPrefix THEN link[2] ELSE None

\* models.rs: VkPostStats.  A u64 counter v is the pair <<hi, lo>> with
\* v = hi * 2^31 + lo and 0 <= lo < 2^31.
U64(v) == <<0, v>>

ZeroStats == [comments_count |-> U64(0), likes_count |-> U64(0),
              views_count |-> U64(0), reposts_count |-> U64(0)]

\* The values call_vk may return here.
StatsValues == { ZeroStats,
                 [comments_count |-> U64(4), likes_count |-> U64(6),
                  views_count |-> U64(8), reposts_count |-> U64(2)] }

\* Mutant: no stats count as empty.
is_post_stats_empty_Never(stats) == FALSE

\* call_vk reads each counter with as_u64(): with these, a likes count of
\* 2^31 + 5 and a views count of 2^32 + 7.
WideStatsValues ==
    StatsValues \cup
        { [comments_count |-> U64(4), likes_count |-> <<1, 5>>,
           views_count |-> U64(8), reposts_count |-> U64(2)],
          [comments_count |-> U64(4), likes_count |-> U64(6),
           views_count |-> <<2, 7>>, reposts_count |-> U64(2)] }

\* utils.rs: is_post_stats_empty
is_post_stats_empty(stats) ==
    /\ stats.likes_count = U64(0)
    /\ stats.comments_count = U64(0)
    /\ stats.reposts_count = U64(0)
    /\ stats.views_count = U64(0)

\* Rust `as i32` on a u64: keep the low 32 bits, read as two's complement.
\* Bit 31 of the value is the lowest bit of hi.
AsI32(v) == IF v[1] % 2 = 1 THEN (v[2] - 2147483647) - 1 ELSE v[2]

VARIABLES
    now,        \* the database clock
    POST,       \* committed rows of POST, id = position (serial)
    POST_INFO,  \* committed rows of POST_INFO, in insertion order
    jobs,       \* every job ever added to the JobScheduler, id = position
    procs,      \* the request handlers (post_polling) in flight
    nreq,       \* requests started so far
    calls,      \* history: committed get_or_create_post_with_prolong calls
    outcome,    \* history: what the last finished request or tick returned
    env,        \* the environment variables the process was started with
    boot,       \* the place of the process in rocket() and init_all_tasks
    deleted,    \* ids of the rows of POST deleted from outside the program
    reader      \* the get_polling handler and its last response

vars == <<now, POST, POST_INFO, jobs, procs, nreq, calls, outcome,
          env, boot, deleted, reader>>

\* What no request and no tick changes.
process == <<env, boot, deleted, reader>>

\* utils.rs: std::env::var(..).ok().and_then(|s| s.parse().ok())
\* .unwrap_or(300).  env.period is {v} when the variable parses as the
\* i32 v and {} when it is unset or does not parse.
get_pooling_period_seconds ==
    IF env.period = {} THEN 300 ELSE CHOOSE v \in env.period : TRUE

\* utils.rs: the same for POOLING_DELTA_SECONDS, with unwrap_or(30).
get_pooling_delta_seconds ==
    IF env.delta = {} THEN 30 ELSE CHOOSE v \in env.delta : TRUE

\* rocket() has returned the Rocket instance: requests are served.
\* todo = the rows init_all_tasks has still to go through.  History:
\* found = what get_posts_needing_polling returned, failed = the window
\* whose job was not added, result = what init_all_tasks returned and, on
\* Err, from which call.
Serving == [phase |-> "serving", todo |-> <<>>, found |-> {},
            failed |-> {}, result |-> "Ok"]

\* Mutant: requests are handled from the start of the process.
Accepting_Early == TRUE

\* Rocket handles requests: #[launch] launches the instance rocket()
\* returns, and rocket() returns after init_all_tasks has.
Accepting == boot.phase = "serving"

\* The rows of POST that exist.
Rows == DOMAIN POST \ deleted

\* A request handler: its place in post_polling (pc), the request's vk_id
\* and prolong flag, the transaction's CURRENT_TIMESTAMP (tx), the row its
\* SELECT returned (row, 0 for none), the id get_or_create returned (ret),
\* what call_vk returned to it (stats).
\* History: n = the number of the request (in arrival order), with = the
\* requests whose transaction overlapped this one's.
IdleProc == [pc |-> "idle", n |-> 0, vk_id |-> None, prolong |-> FALSE,
             tx |-> 0, row |-> 0, ret |-> 0, with |-> {},
             stats |-> ZeroStats]

\* post_polling returns r: the handler is free again.
Respond(p, r) ==
    /\ procs' = [procs EXCEPT ![p] = IdleProc]
    /\ outcome' = r

\* What get_polling has answered: the status, which of its texts the body
\* holds, the scrapper_id and the data.  History: rows = the positions
\* in POST_INFO of the rows in data.
NoResp == [status |-> "none", body |-> "none", id |-> 0, data |-> <<>>,
           rows |-> <<>>]

\* The get_polling handler: its place (pc) and scrapper_id (id), and the
\* last response (resp).
IdleReader == [pc |-> "idle", id |-> 0, resp |-> NoResp]

Init ==
    /\ now = 0
    /\ POST = <<>>
    /\ POST_INFO = <<>>
    /\ jobs = <<>>
    /\ procs = [p \in Procs |-> IdleProc]
    /\ nreq = 0
    /\ calls = <<>>
    /\ outcome = None
    /\ env = [period |-> {POOLING_PERIOD_SECONDS},
              delta |-> {POOLING_DELTA_SECONDS}]
    /\ boot = Serving
    /\ deleted = {}
    /\ reader = IdleReader

\* The clock advances.
Advance ==
    /\ now < MaxTime
    /\ now' = now + 1
    /\ UNCHANGED <<POST, POST_INFO, jobs, procs, nreq, calls, outcome, process>>

\* ------------------------------------------------------- db_commands.rs

\* tsrange(b, e) @> t with the default '[)' bounds.
TsrangeContains(b, e, t) == b <= t /\ t < e

\* Mutant: the interval is seconds, not 2 * seconds.
has_recent_post_info_OneDelta(post_id, seconds) ==
    \E k \in DOMAIN POST_INFO :
        /\ POST_INFO[k].post_id = post_id
        /\ POST_INFO[k].info_time > now - seconds

\* has_recent_post_info(pool, post_id, seconds), an autocommit statement:
\* EXISTS row with info_time > CURRENT_TIMESTAMP - 2 * seconds.
has_recent_post_info(post_id, seconds) ==
    \E k \in DOMAIN POST_INFO :
        /\ POST_INFO[k].post_id = post_id
        /\ POST_INFO[k].info_time > now - (2 * seconds)

\* Mutant: only a missing row ends the polling.
is_ready_to_finish_Missing(post_id) == post_id \notin Rows

\* Mutant: the comparison is >=.
is_ready_to_finish_AtEnd(post_id) ==
    IF post_id \in Rows THEN now >= POST[post_id].dt_parse_end ELSE TRUE

\* is_ready_to_finish(pool, post_id): CURRENT_TIMESTAMP > dt_parse_end,
\* and true when no row has that id.
is_ready_to_finish(post_id) ==
    IF post_id \in Rows THEN now > POST[post_id].dt_parse_end ELSE TRUE

\* get_vk_id_by_post_id(pool, post_id)
get_vk_id_by_post_id(post_id) ==
    IF post_id \in Rows THEN POST[post_id].vk_id ELSE None

\* The rows of POST_INFO of post_id, by position.
SamplesOf(post_id) ==
    { k \in DOMAIN POST_INFO : POST_INFO[k].post_id = post_id }

\* Mutant: the rows come in any order.
post_info_ordered_AnyOrder(post_id) ==
    LET idx == SamplesOf(post_id)
        n   == Cardinality(idx)
    IN  { L \in [1..n -> idx] : \A a, b \in 1..n : a # b => L[a] # L[b] }

\* get_post_with_data: SELECT ... WHERE post_id = $1 ORDER BY info_time
\* ASC.  Every order of the rows the sort allows: rows with equal
\* info_time come in any order.
post_info_ordered(post_id) ==
    LET idx == SamplesOf(post_id)
        n   == Cardinality(idx)
    IN  { L \in [1..n -> idx] :
            /\ \A a, b \in 1..n : a # b => L[a] # L[b]
            /\ \A a, b \in 1..n :
                  a < b => POST_INFO[L[a]].info_time
                              <= POST_INFO[L[b]].info_time }

\* Mutant: the transaction is open from the end of call_vk on.
InTx_Early(p) == procs[p].pc \in {"begin", "select", "write"}

\* A transaction between BEGIN and COMMIT.
InTx(p) == procs[p].pc \in {"select", "write"}

\* The row lock FOR UPDATE takes, held until commit or rollback.
Locked(i) == \E q \in Procs : procs[q].pc = "write" /\ procs[q].row = i

\* Rows the SELECT of get_or_create_post_with_prolong matches, for the
\* transaction's CURRENT_TIMESTAMP t.
OpenRows(vk_id, t) ==
    { i \in Rows :
        /\ POST[i].vk_id = vk_id
        /\ TsrangeContains(POST[i].dt_parse_begin, POST[i].dt_parse_end, t) }

\* tsrange(b, e) raises "range lower bound must be less than or equal to
\* range upper bound" on a row with b > e: the SELECT fails when a row of
\* vk_id is such a row.
RangeError(vk_id) ==
    \E i \in Rows :
        /\ POST[i].vk_id = vk_id
        /\ POST[i].dt_parse_begin > POST[i].dt_parse_end

PostDetails(i, r) == [id |-> i, vk_id |-> r.vk_id,
                      dt_parse_begin |-> r.dt_parse_begin,
                      dt_parse_end |-> r.dt_parse_end]

\* ----------------------------------------------------------- endpoints.rs

\* post_polling up to get_or_create_post_with_prolong for the request
\* {vk_link: link, prolong}: the link is checked, call_vk answers; an
\* invalid link, a VK API error and empty stats end the request with
\* BadRequest.
ReqStartWith(p, link, prolong) ==
    /\ Accepting
    /\ procs[p].pc = "idle"
    /\ nreq < MaxReq
    /\ nreq' = nreq + 1
    /\ LET vk_id == strip_prefix(link) IN
       IF vk_id = None
       THEN Respond(p, "BadRequest")
       ELSE \/ \E stats \in StatsValues :
                 IF is_post_stats_empty(stats)
                 THEN Respond(p, "BadRequest")
                 ELSE /\ procs' = [procs EXCEPT ![p] =
                            [IdleProc EXCEPT !.pc = "begin", !.n = nreq + 1,
                                !.vk_id = vk_id, !.prolong = prolong,
                                !.stats = stats]]
                      /\ outcome' = outcome
            \/ Respond(p, "BadRequest")   \* VK API error
    /\ UNCHANGED <<now, POST, POST_INFO, jobs, calls, process>>

\* A request arrives, with any link and prolong flag.
ReqStart(p) ==
    \E link \in Links, prolong \in BOOLEAN : ReqStartWith(p, link, prolong)

\* get_or_create_post_with_prolong: pool.begin().  CURRENT_TIMESTAMP of
\* the transaction is fixed here.
TxBegin(p) ==
    /\ procs[p].pc = "begin"
    /\ LET others == { q \in Procs \ {p} : InTx(q) } IN
       procs' = [q \in Procs |->
           IF q = p
           THEN [procs[p] EXCEPT !.pc = "select", !.tx = now,
                                 !.with = { procs[o].n : o \in others }]
           ELSE IF q \in others
           THEN [procs[q] EXCEPT !.with = @ \cup {procs[p].n}]
           ELSE procs[q]]
    /\ UNCHANGED <<now, POST, POST_INFO, jobs, nreq, calls, outcome, process>>

\* get_or_create_post_with_prolong: SELECT ... LIMIT 1 FOR UPDATE.  It
\* returns one matching row and locks it, waits while the row it would
\* return is locked by another transaction, or returns no row.
TxSelect(p) ==
    /\ procs[p].pc = "select"
    /\ ~RangeError(procs[p].vk_id)
    /\ LET rows == OpenRows(procs[p].vk_id, procs[p].tx) IN
       \/ /\ rows = {}
          /\ procs' = [procs EXCEPT ![p].pc = "write", ![p].row = 0]
       \/ \E i \in rows :
          /\ ~Locked(i)
          /\ procs' = [procs EXCEPT ![p].pc = "write", ![p].row = i]
    /\ UNCHANGED <<now, POST, POST_INFO, jobs, nreq, calls, outcome, process>>

\* Mutant: the UPDATE runs whatever the prolong flag.
WrittenPost_AlwaysProlong(p) ==
    LET s == procs[p] IN
    IF s.row # 0
    THEN [POST EXCEPT ![s.row].dt_parse_end =
                         s.tx + get_pooling_period_seconds]
    ELSE Append(POST, [vk_id |-> s.vk_id, dt_parse_begin |-> s.tx,
                       dt_parse_end |-> s.tx + get_pooling_period_seconds])

\* Mutant: the UPDATE adds the period to the row's dt_parse_end.
WrittenPost_FromOldEnd(p) ==
    LET s == procs[p] IN
    IF s.row # 0
    THEN IF s.prolong
         THEN [POST EXCEPT ![s.row].dt_parse_end =
                              @ + get_pooling_period_seconds]
         ELSE POST
    ELSE Append(POST, [vk_id |-> s.vk_id, dt_parse_begin |-> s.tx,
                       dt_parse_end |-> s.tx + get_pooling_period_seconds])

\* Mutant: the UPDATE leaves dt_parse_end as it was.
WrittenPost_NoProlong(p) ==
    LET s == procs[p] IN
    IF s.row # 0
    THEN POST
    ELSE Append(POST, [vk_id |-> s.vk_id, dt_parse_begin |-> s.tx,
                       dt_parse_end |-> s.tx + get_pooling_period_seconds])

\* Mutant: the UPDATE also moves dt_parse_begin.
WrittenPost_Rebased(p) ==
    LET s == procs[p] IN
    IF s.row # 0
    THEN IF s.prolong
         THEN [POST EXCEPT ![s.row].dt_parse_end =
                              s.tx + get_pooling_period_seconds,
                           ![s.row].dt_parse_begin = s.tx]
         ELSE POST
    ELSE Append(POST, [vk_id |-> s.vk_id, dt_parse_begin |-> s.tx,
                       dt_parse_end |-> s.tx + get_pooling_period_seconds])

\* The rows of POST after the UPDATE or INSERT of the transaction of p.
WrittenPost(p) ==
    LET s == procs[p] IN
    IF s.row # 0
    THEN IF s.prolong
         THEN [POST EXCEPT ![s.row].dt_parse_end =
                              s.tx + get_pooling_period_seconds]
         ELSE POST
    ELSE Append(POST, [vk_id |-> s.vk_id, dt_parse_begin |-> s.tx,
                       dt_parse_end |-> s.tx + get_pooling_period_seconds])

\* The id of the row the call of p returns.
WrittenId(p) == IF procs[p].row # 0 THEN procs[p].row ELSE Len(POST) + 1

\* get_or_create_post_with_prolong: UPDATE or INSERT ... RETURNING, then
\* tx.commit() and Ok(post_details).
TxWrite(p) ==
    /\ procs[p].pc = "write"
    /\ POST' = WrittenPost(p)
    /\ LET id == WrittenId(p)
           d  == PostDetails(id, POST'[id])
       IN /\ procs' = [procs EXCEPT ![p].pc = "check", ![p].ret = id,
                                    ![p].row = 0]
          /\ calls' = Append(calls,
                [n |-> procs[p].n, prolong |-> procs[p].prolong,
                 found |-> procs[p].row # 0, tx |-> procs[p].tx,
                 with |-> procs[p].with, post |-> d])
    /\ UNCHANGED <<now, POST_INFO, jobs, nreq, outcome, process>>

\* Mutant: the statement of a transaction that fails stays written.
RolledBack_Partial(p) ==
    IF procs[p].pc = "write" THEN WrittenPost(p) ELSE POST

\* The rows of POST after the transaction of p is dropped without commit
\* (`?` returns with tx going out of scope): what it wrote is rolled back.
RolledBack(p) == POST

\* get_or_create_post_with_prolong: a statement or the commit fails; the
\* transaction rolls back and post_polling answers BadRequest.
TxFail(p) ==
    /\ procs[p].pc \in {"begin", "select", "write"}
    /\ Respond(p, "BadRequest")
    /\ POST' = RolledBack(p)
    /\ UNCHANGED <<now, POST_INFO, jobs, nreq, calls, process>>

\* The job post_polling and init_all_tasks create: Job::new_async with the
\* cron expression "*/delta * * * * *" and the closure that calls
\* poll_post_stats for db_post_id.
\* live = it is in the scheduler; pc, stats = the place of its tick in
\* poll_post_stats and what call_vk returned to it.
\* pc2, stats2 = the same for a second tick of the job in flight at the
\* same time.
\* History: last = the last instant at which the job was created, fired
\* or had a tick return.
NewJob(db_post_id) ==
    [post_id |-> db_post_id, live |-> TRUE, pc |-> "idle",
     stats |-> ZeroStats, last |-> now, pc2 |-> "idle",
     stats2 |-> ZeroStats]

\* Mutant: no job is ever created.
shouldSchedule_Never(post_id) == FALSE

\* Mutant: the job is created whatever has_recent says.
shouldSchedule_Always(post_id) == TRUE

\* The gate of post_polling: `if !has_recent`.
shouldSchedule(post_id) ==
    ~has_recent_post_info(post_id, get_pooling_delta_seconds)

\* post_polling after get_or_create_post_with_prolong returned Ok:
\* has_recent_post_info, then Job::new_async and scheduler.add when there
\* is no recent row, then the response.
ReqSchedule(p) ==
    /\ procs[p].pc = "check"
    /\ \/ /\ shouldSchedule(procs[p].ret)
          /\ jobs' = Append(jobs, NewJob(procs[p].ret))
          /\ Respond(p, "Ok")
       \/ /\ ~shouldSchedule(procs[p].ret)
          /\ jobs' = jobs
          /\ Respond(p, "Ok")
       \/ \* has_recent_post_info, Job::new_async or scheduler.add fails
          /\ jobs' = jobs
          /\ Respond(p, "BadRequest")
    /\ UNCHANGED <<now, POST, POST_INFO, nreq, calls, process>>

\* Mutant: a missing post is answered like a post with no data.
NotFoundResp_Empty(id) ==
    [status |-> "Ok", body |-> "data", id |-> id, data |-> <<>>,
     rows |-> <<>>]

\* get_polling: get_post_with_data returned Ok(None): NotFound("Post with
\* scrapper_id {} not found").
NotFoundResp(id) ==
    [status |-> "NotFound", body |-> "not found", id |-> id, data |-> <<>>,
     rows |-> <<>>]

\* get_polling: get_post_with_data returned Err: NotFound("Database
\* error: {}").
DbErrorResp(id) ==
    [status |-> "NotFound", body |-> "Database error", id |-> id,
     data |-> <<>>, rows |-> <<>>]

\* models.rs: PostInfoData, from row k of POST_INFO.
PostInfoData(k) ==
    [comments_count |-> POST_INFO[k].comments_count,
     likes_count |-> POST_INFO[k].likes_count,
     views_count |-> POST_INFO[k].views_count,
     reposts_count |-> POST_INFO[k].reposts_count,
     info_time |-> POST_INFO[k].info_time]

\* get_polling: Ok(Json(GetPollingResponse)) with the rows L of POST_INFO.
OkResp(id, L) ==
    [status |-> "Ok", body |-> "data", id |-> id,
     data |-> [a \in DOMAIN L |-> PostInfoData(L[a])], rows |-> L]

\* The scrapper_id of a GET /polling.
ReadIds == 0..(MaxStart + 1)

\* get_polling, get_post_with_data: SELECT ... FROM POST WHERE id = $1
\* with fetch_optional; None is answered at once.
GetPollingPost(id) ==
    /\ Accepting
    /\ reader.pc = "idle"
    /\ \/ reader' = IF id \in Rows
                    THEN [pc |-> "info", id |-> id, resp |-> NoResp]
                    ELSE [pc |-> "idle", id |-> id, resp |-> NotFoundResp(id)]
       \/ reader' = [pc |-> "idle", id |-> id, resp |-> DbErrorResp(id)]
    /\ UNCHANGED <<now, POST, POST_INFO, jobs, procs, nreq, calls, outcome,
                   env, boot, deleted>>

\* get_polling, get_post_with_data: SELECT ... FROM POST_INFO WHERE
\* post_id = $1 ORDER BY info_time ASC with fetch_all, then the response.
GetPollingInfo ==
    /\ reader.pc = "info"
    /\ \/ \E L \in post_info_ordered(reader.id) :
            reader' = [pc |-> "idle", id |-> reader.id,
                       resp |-> OkResp(reader.id, L)]
       \/ reader' = [pc |-> "idle", id |-> reader.id,
                     resp |-> DbErrorResp(reader.id)]
    /\ UNCHANGED <<now, POST, POST_INFO, jobs, procs, nreq, calls, outcome,
                   env, boot, deleted>>

\* ---------------------------------------------------------------- tasks.rs

\* The seconds field "*/d" of the job's cron expression.
CronMatches(t, d) == ((t % 60) % d) = 0

\* The scheduler spawns the job's closure at every fire, so a job may
\* have a tick in flight when it fires again: slot 1 (pc, stats) and
\* slot 2 (pc2, stats2) hold up to two ticks of one job.
Slots == {1, 2}

PcOf(j, s) == IF s = 1 THEN jobs[j].pc ELSE jobs[j].pc2

StatsOf(j, s) == IF s = 1 THEN jobs[j].stats ELSE jobs[j].stats2

\* The jobs with the tick in slot s of job j at pc, holding stats.
SetTick(j, s, pc, stats) ==
    IF s = 1 THEN [jobs EXCEPT ![j].pc = pc, ![j].stats = stats]
             ELSE [jobs EXCEPT ![j].pc2 = pc, ![j].stats2 = stats]

\* Mutant: a tick that returns takes its job out of the scheduler.
TickEnd_Dropped(j, s) ==
    [SetTick(j, s, "idle", ZeroStats) EXCEPT ![j].last = now,
                                             ![j].live = FALSE]

\* Mutant: a tick that returns takes every other job out of the
\* scheduler.
TickEnd_StopsOthers(j, s) ==
    [k \in DOMAIN jobs |->
        IF k = j
        THEN [SetTick(j, s, "idle", ZeroStats)[j] EXCEPT !.last = now]
        ELSE [jobs[k] EXCEPT !.live = FALSE]]

\* Job j after its tick in slot s returned.
TickEnd(j, s) == [SetTick(j, s, "idle", ZeroStats) EXCEPT ![j].last = now]

\* Mutant: the job stays in the scheduler.
Removed_Kept(j, s) == TickEnd(j, s)

\* Mutant: removing the job also drops its other tick in flight.
Removed_Cancelled(j, s) ==
    [jobs EXCEPT ![j] = [@ EXCEPT !.live = FALSE, !.last = now,
                                  !.pc = "idle", !.stats = ZeroStats,
                                  !.pc2 = "idle", !.stats2 = ZeroStats]]

\* poll_post_stats: locked_scheduler.remove(job_id) and return Ok(()).
Removed(j, s) == [TickEnd(j, s) EXCEPT ![j].live = FALSE]

\* The scheduler fires job j and poll_post_stats runs is_ready_to_finish:
\* scheduler.remove and Ok(()) when it is true.  A job fires at an instant
\* of its cron expression, later than its creation and than its last
\* fire.  Slot 2 takes the tick of a fire that finds a tick in flight.
TickFire(j, s) ==
    /\ jobs[j].live
    /\ PcOf(j, s) = "idle"
    /\ s = 2 => jobs[j].pc # "idle"
    /\ jobs[j].last < now
    /\ CronMatches(now, get_pooling_delta_seconds)
    /\ \/ /\ is_ready_to_finish(jobs[j].post_id)
          /\ jobs' = Removed(j, s)
          /\ outcome' = "TickOk"
       \/ /\ ~is_ready_to_finish(jobs[j].post_id)
          /\ Len(POST_INFO) < MaxInfo
          /\ jobs' = [SetTick(j, s, "resolve", ZeroStats)
                         EXCEPT ![j].last = now]
          /\ outcome' = outcome
       \/ \* is_ready_to_finish fails
          /\ jobs' = TickEnd(j, s)
          /\ outcome' = "TickErr"
    /\ UNCHANGED <<now, POST, POST_INFO, procs, nreq, calls, process>>

\* poll_post_stats: get_vk_id_by_post_id(..).await?.ok_or("Post not
\* found")?
TickResolve(j, s) ==
    /\ PcOf(j, s) = "resolve"
    /\ \/ IF get_vk_id_by_post_id(jobs[j].post_id) = None
          THEN jobs' = TickEnd(j, s) /\ outcome' = "TickErr"
          ELSE jobs' = SetTick(j, s, "fetch", ZeroStats)
               /\ outcome' = outcome
       \/ \* get_vk_id_by_post_id fails
          /\ jobs' = TickEnd(j, s)
          /\ outcome' = "TickErr"
    /\ UNCHANGED <<now, POST, POST_INFO, procs, nreq, calls, process>>

\* poll_post_stats: call_vk answers, with stats out of V or with Err.
TickFetchFrom(j, s, V) ==
    /\ PcOf(j, s) = "fetch"
    /\ \/ \E stats \in V :
            /\ jobs' = SetTick(j, s, "save", stats)
            /\ outcome' = outcome
       \/ /\ jobs' = TickEnd(j, s)   \* "VK API call failed"
          /\ outcome' = "TickErr"
    /\ UNCHANGED <<now, POST, POST_INFO, procs, nreq, calls, process>>

TickFetch(j, s) == TickFetchFrom(j, s, StatsValues)

\* Mutant: info_time is not set from the clock.
save_post_info_NoTime(post_id, stats, j) ==
    Append(POST_INFO,
        [post_id |-> post_id,
         likes_count |-> AsI32(stats.likes_count),
         comments_count |-> AsI32(stats.comments_count),
         reposts_count |-> AsI32(stats.reposts_count),
         views_count |-> AsI32(stats.views_count),
         info_time |-> 0, job |-> j, raw |-> stats])

\* save_post_info: INSERT INTO POST_INFO ... CURRENT_TIMESTAMP, with the
\* counters cast by `as i32`.
\* History: job and raw = the job that saved the row and the counters
\* call_vk returned to it.
save_post_info(post_id, stats, j) ==
    Append(POST_INFO,
        [post_id |-> post_id,
         likes_count |-> AsI32(stats.likes_count),
         comments_count |-> AsI32(stats.comments_count),
         reposts_count |-> AsI32(stats.reposts_count),
         views_count |-> AsI32(stats.views_count),
         info_time |-> now, job |-> j, raw |-> stats])

\* poll_post_stats: save_post_info and Ok(()).
TickSave(j, s) ==
    /\ PcOf(j, s) = "save"
    /\ \/ /\ Len(POST_INFO) < MaxInfo
          /\ POST_INFO' = save_post_info(jobs[j].post_id, StatsOf(j, s), j)
          /\ jobs' = TickEnd(j, s)
          /\ outcome' = "TickOk"
       \/ /\ POST_INFO' = POST_INFO   \* save_post_info fails
          /\ jobs' = TickEnd(j, s)
          /\ outcome' = "TickErr"
    /\ UNCHANGED <<now, POST, procs, nreq, calls, process>>

\* A row of POST is deleted by a statement from outside the program
\* (nothing in the program deletes one): a window with no rows in
\* POST_INFO, not locked by a transaction.
RowDeleted(i) ==
    /\ i \in Rows
    /\ SamplesOf(i) = {}
    /\ ~Locked(i)
    /\ deleted' = deleted \cup {i}
    /\ UNCHANGED <<now, POST, POST_INFO, jobs, procs, nreq, calls, outcome,
                   env, boot, reader>>

\* ------------------------------------------------- main.rs, init_all_tasks

\* Mutant: every window with dt_parse_end > now, whatever its rows in
\* POST_INFO.
get_posts_needing_polling_AllOpen ==
    { i \in Rows : POST[i].dt_parse_end > now }

\* get_posts_needing_polling: SELECT DISTINCT p.id, p.vk_id FROM POST p
\* WHERE p.dt_parse_end > CURRENT_TIMESTAMP AND NOT EXISTS (a row of
\* POST_INFO of p with info_time > CURRENT_TIMESTAMP - 2 * delta).
get_posts_needing_polling ==
    { i \in Rows :
        /\ POST[i].dt_parse_end > now
        /\ ~\E k \in DOMAIN POST_INFO :
              /\ POST_INFO[k].post_id = i
              /\ POST_INFO[k].info_time
                    > now - (2 * get_pooling_delta_seconds) }

\* The orders in which a query without ORDER BY may return the rows S.
Orders(S) ==
    { q \in [1..Cardinality(S) -> S] :
        \A a, b \in DOMAIN q : a # b => q[a] # q[b] }

\* rocket() has started the scheduler and calls init_all_tasks.
Starting == [phase |-> "init", todo |-> <<>>, found |-> {},
             failed |-> {}, result |-> "none"]

\* init_all_tasks: get_posts_needing_polling(pool).await?  On Err
\* init_all_tasks returns it, rocket() prints it and goes on to build the
\* Rocket instance.
InitAllTasksQuery ==
    /\ boot.phase = "init"
    /\ \/ \E q \in Orders(get_posts_needing_polling) :
            boot' = IF q = <<>>
                    THEN [Serving EXCEPT !.result = "Ok"]
                    ELSE [Starting EXCEPT !.phase = "loop", !.todo = q,
                              !.found = get_posts_needing_polling]
       \/ boot' = [Serving EXCEPT !.result = "QueryErr"]
    /\ UNCHANGED <<now, POST, POST_INFO, jobs, procs, nreq, calls, outcome,
                   env, deleted, reader>>

\* init_all_tasks, one turn of the loop: Job::new_async(..)? and
\* scheduler.add(job).await?  On Err of either init_all_tasks returns it,
\* with the rest of the rows not looked at.  After the last row Ok(()).
InitAllTasksAdd ==
    /\ boot.phase = "loop"
    /\ \/ /\ jobs' = Append(jobs, NewJob(Head(boot.todo)))
          /\ boot' = IF Len(boot.todo) = 1
                     THEN [boot EXCEPT !.phase = "serving", !.todo = <<>>,
                                       !.result = "Ok"]
                     ELSE [boot EXCEPT !.todo = Tail(boot.todo)]
       \/ /\ jobs' = jobs
          /\ boot' = [boot EXCEPT !.phase = "serving",
                                  !.failed = {Head(boot.todo)},
                                  !.result = "JobErr"]
    /\ UNCHANGED <<now, POST, POST_INFO, procs, nreq, calls, outcome,
                   env, deleted, reader>>

\* The rows a process may find in POST when it starts at time 0: windows
\* of earlier runs, in the order of their creation.
StartRows ==
    { [vk_id |-> v, dt_parse_begin |-> b,
       dt_parse_end |-> b + POOLING_PERIOD_SECONDS] :
          v \in {"-1_1", "-2_2"}, b \in (0 - 4)..(0 - 1) }

StartStores ==
    UNION { { P \in [1..n -> StartRows] :
                \A a, b \in 1..n :
                    a < b => P[a].dt_parse_begin < P[b].dt_parse_begin } :
            n \in 0..MaxStart }

\* The rows of POST_INFO found with the store P: for each window at most
\* one row, saved when f says, f[i] = {} for none.
RECURSIVE StartInfo(_, _, _)
StartInfo(P, f, i) ==
    IF i > Len(P) THEN <<>>
    ELSE (IF f[i] = {} THEN <<>>
          ELSE << [post_id |-> i, likes_count |-> 6, comments_count |-> 4,
                   reposts_count |-> 2, views_count |-> 8,
                   info_time |-> CHOOSE t \in f[i] : TRUE, job |-> 0,
                   raw |-> ZeroStats] >>)
         \o StartInfo(P, f, i + 1)

StartInfos(P) ==
    { StartInfo(P, f, 1) :
        f \in { g \in [DOMAIN P -> {{}} \cup { {t} : t \in (0 - 4)..(0 - 1) }] :
                  \A i \in DOMAIN P : \A t \in g[i] :
                      P[i].dt_parse_begin <= t /\ t <= P[i].dt_parse_end } }

\* A process starts on a store left by earlier runs.
InitStartup ==
    /\ now = 0
    /\ POST \in StartStores
    /\ POST_INFO \in StartInfos(POST)
    /\ jobs = <<>>
    /\ procs = [p \in Procs |-> IdleProc]
    /\ nreq = 0
    /\ calls = <<>>
    /\ outcome = None
    /\ env = [period |-> {POOLING_PERIOD_SECONDS},
              delta |-> {POOLING_DELTA_SECONDS}]
    /\ boot = Starting
    /\ deleted = {}
    /\ reader = IdleReader

Next ==
    \/ Advance
    \/ InitAllTasksQuery
    \/ InitAllTasksAdd
    \/ \E p \in Procs : ReqStart(p)
    \/ \E p \in Procs : TxBegin(p)
    \/ \E p \in Procs : TxSelect(p)
    \/ \E p \in Procs : TxWrite(p)
    \/ \E p \in Procs : TxFail(p)
    \/ \E p \in Procs : ReqSchedule(p)
    \/ \E j \in DOMAIN jobs, s \in Slots : TickFire(j, s)
    \/ \E j \in DOMAIN jobs, s \in Slots : TickResolve(j, s)
    \/ \E j \in DOMAIN jobs, s \in Slots : TickFetch(j, s)
    \/ \E j \in DOMAIN jobs, s \in Slots : TickSave(j, s)
    \/ \E i \in DOMAIN POST : RowDeleted(i)
    \/ \E id \in ReadIds : GetPollingPost(id)
    \/ GetPollingInfo

\* The whole program.
Spec == Init /\ [][Next]_vars

\* The window store under concurrent requests: every request handler
\* runs, the scheduler's jobs do not tick.  No tick changes POST or a
\* request handler, so what this specification shows of them holds with
\* ticks too.
NextWindows ==
    \/ Advance
    \/ \E p \in Procs : ReqStart(p)
    \/ \E p \in Procs : TxBegin(p)
    \/ \E p \in Procs : TxSelect(p)
    \/ \E p \in Procs : TxWrite(p)
    \/ \E p \in Procs : TxFail(p)
    \/ \E p \in Procs : ReqSchedule(p)

SpecWindows == Init /\ [][NextWindows]_vars

\* The window store under concurrent requests, for a process started on
\* an empty store with POOLING_PERIOD_SECONDS negative, zero, positive or
\* unset.
InitConfig ==
    /\ now = 0
    /\ POST = <<>>
    /\ POST_INFO = <<>>
    /\ jobs = <<>>
    /\ procs = [p \in Procs |-> IdleProc]
    /\ nreq = 0
    /\ calls = <<>>
    /\ outcome = None
    /\ env \in [period : { {0 - 1}, {0}, {POOLING_PERIOD_SECONDS}, {} },
                 delta : { {POOLING_DELTA_SECONDS} }]
    /\ boot = Serving
    /\ deleted = {}
    /\ reader = IdleReader

SpecConfig == InitConfig /\ [][NextWindows]_vars

\* The scheduler and its jobs, with the requests handled one at a time
\* and every tick of a job returning before the job's next fire.
NextPolling ==
    \/ Advance
    \/ ReqStart(1)
    \/ TxBegin(1)
    \/ TxSelect(1)
    \/ TxWrite(1)
    \/ TxFail(1)
    \/ ReqSchedule(1)
    \/ \E j \in DOMAIN jobs : TickFire(j, 1)
    \/ \E j \in DOMAIN jobs : TickResolve(j, 1)
    \/ \E j \in DOMAIN jobs : TickFetch(j, 1)
    \/ \E j \in DOMAIN jobs : TickSave(j, 1)

SpecPolling == Init /\ [][NextPolling]_vars

\* The scheduler and its jobs as in SpecPolling, with rows of POST
\* deleted from outside.
NextVanish ==
    \/ NextPolling
    \/ \E i \in DOMAIN POST : RowDeleted(i)

SpecVanish == Init /\ [][NextVanish]_vars

\* The start of a process on a store left by earlier runs, up to the
\* point where rocket() returns; the jobs added do not tick meanwhile.
NextStartup ==
    \/ Advance
    \/ InitAllTasksQuery
    \/ InitAllTasksAdd

SpecStartup == InitStartup /\ [][NextStartup]_vars

\* A process starts on a store of at most one window, with no rows in
\* POST_INFO.
InitOneWindow == InitStartup /\ Len(POST) <= 1 /\ POST_INFO = <<>>

\* A process starts while the window of "-1_1" is open, the only one in
\* the store.
InitRestart ==
    /\ InitOneWindow
    /\ Len(POST) = 1
    /\ POST[1].vk_id = "-1_1"
    /\ POST[1].dt_parse_end > now

\* A process that starts on such a store and then serves concurrent
\* requests; the jobs do not tick.
NextRestart ==
    \/ InitAllTasksQuery
    \/ InitAllTasksAdd
    \/ NextWindows

SpecRestart == InitRestart /\ [][NextRestart]_vars

\* A process that starts on at most one window and gets no request: the jobs
\* init_all_tasks adds tick, and a job fires whether or not its previous
\* tick has returned.

NextOverlap ==
    \/ Advance
    \/ InitAllTasksQuery
    \/ InitAllTasksAdd
    \/ \E j \in DOMAIN jobs, s \in Slots : TickFire(j, s)
    \/ \E j \in DOMAIN jobs, s \in Slots : TickResolve(j, s)
    \/ \E j \in DOMAIN jobs, s \in Slots : TickFetch(j, s)
    \/ \E j \in DOMAIN jobs, s \in Slots : TickSave(j, s)

SpecOverlap == InitOneWindow /\ [][NextOverlap]_vars

\* A process starts on a store of at most one window with each of
\* POOLING_PERIOD_SECONDS and POOLING_DELTA_SECONDS either set as in Init
\* or unset (or set to a text that does not parse as an i32, which
\* .parse().ok() turns into the same None).
InitEnv ==
    /\ now = 0
    /\ POST \in StartStores
    /\ Len(POST) <= 1
    /\ POST_INFO = <<>>
    /\ jobs = <<>>
    /\ procs = [p \in Procs |-> IdleProc]
    /\ nreq = 0
    /\ calls = <<>>
    /\ outcome = None
    /\ env \in [period : { {}, {POOLING_PERIOD_SECONDS} },
                 delta : { {}, {POOLING_DELTA_SECONDS} }]
    /\ boot = Starting
    /\ deleted = {}
    /\ reader = IdleReader

\* Such a process runs init_all_tasks and then handles requests one at a
\* time; the jobs do not tick.
NextEnv ==
    \/ Advance
    \/ InitAllTasksQuery
    \/ InitAllTasksAdd
    \/ ReqStart(1)
    \/ TxBegin(1)
    \/ TxSelect(1)
    \/ TxWrite(1)
    \/ TxFail(1)
    \/ ReqSchedule(1)

SpecEnv == InitEnv /\ [][NextEnv]_vars

\* A process that starts on at most one window and gets no request: the
\* jobs init_all_tasks adds tick, each tick returning before the job's
\* next fire.
NextTicks ==
    \/ Advance
    \/ InitAllTasksQuery
    \/ InitAllTasksAdd
    \/ \E j \in DOMAIN jobs : TickFire(j, 1)
    \/ \E j \in DOMAIN jobs : TickResolve(j, 1)
    \/ \E j \in DOMAIN jobs : TickFetch(j, 1)
    \/ \E j \in DOMAIN jobs : TickSave(j, 1)

\* The ids a job of such a process may have.
JobIds == 1..MaxStart

\* A step of a tick of job j that is a statement on the database.
TickDbStep(j) ==
    /\ j \in DOMAIN jobs
    /\ TickResolve(j, 1) \/ TickSave(j, 1)

\* call_vk returns to the tick of job j.
TickFetchStep(j) == j \in DOMAIN jobs /\ TickFetch(j, 1)

\* The database answers every statement of a tick.  Nothing is assumed
\* of call_vk: reqwest::get(&url) uses a client built with no timeout, so
\* the await in call_vk ends only when the server answers or the
\* connection fails.
SpecHang ==
    /\ InitOneWindow
    /\ [][NextTicks]_vars
    /\ \A j \in JobIds : WF_vars(TickDbStep(j))

\* The same with a server that always answers.
SpecAnswered == SpecHang /\ \A j \in JobIds : WF_vars(TickFetchStep(j))

\* Job j is in the scheduler and due to fire, with no tick in flight.
Due(j) ==
    /\ j \in DOMAIN jobs
    /\ jobs[j].live
    /\ jobs[j].pc = "idle"
    /\ jobs[j].last < now
    /\ CronMatches(now, get_pooling_delta_seconds)

\* The rows POST_INFO may hold for the store P: each of a window of P,
\* stamped between the window's begin and the start of the process.
ReadRows(P) ==
    { [post_id |-> i, likes_count |-> 6, comments_count |-> 4,
       reposts_count |-> 2, views_count |-> 8, info_time |-> t, job |-> 0,
       raw |-> ZeroStats] :
          i \in DOMAIN P, t \in (0 - 4)..(0 - 1) }

\* Up to MaxInfo such rows, in any order of insertion.
ReadInfos(P) ==
    UNION { { I \in [1..n -> ReadRows(P)] :
                \A k \in 1..n :
                    P[I[k].post_id].dt_parse_begin <= I[k].info_time } :
            n \in 0..MaxInfo }

\* A process starts on a store of at most two windows, with rows of
\* POST_INFO left by earlier runs.
InitRead ==
    /\ now = 0
    /\ POST \in StartStores
    /\ Len(POST) <= 2
    /\ POST_INFO \in ReadInfos(POST)
    /\ jobs = <<>>
    /\ procs = [p \in Procs |-> IdleProc]
    /\ nreq = 0
    /\ calls = <<>>
    /\ outcome = None
    /\ env = [period |-> {POOLING_PERIOD_SECONDS},
              delta |-> {POOLING_DELTA_SECONDS}]
    /\ boot = Starting
    /\ deleted = {}
    /\ reader = IdleReader

\* Such a process runs init_all_tasks and then answers GET /polling, one
\* request at a time.
NextRead ==
    \/ InitAllTasksQuery
    \/ InitAllTasksAdd
    \/ \E id \in ReadIds : GetPollingPost(id)
    \/ GetPollingInfo

SpecRead == InitRead /\ [][NextRead]_vars

\* The ticks of NextTicks with call_vk returning any of WideStatsValues.
NextCounters ==
    \/ Advance
    \/ InitAllTasksQuery
    \/ InitAllTasksAdd
    \/ \E j \in DOMAIN jobs : TickFire(j, 1)
    \/ \E j \in DOMAIN jobs : TickResolve(j, 1)
    \/ \E j \in DOMAIN jobs : TickFetchFrom(j, 1, WideStatsValues)
    \/ \E j \in DOMAIN jobs : TickSave(j, 1)

SpecCounters == InitOneWindow /\ [][NextCounters]_vars

\* The scheduler fires job j and is_ready_to_finish returns Ok.
TickFireChecked(j) ==
    /\ j \in DOMAIN jobs
    /\ TickFire(j, 1)
    /\ jobs' # TickEnd(j, 1)

\* get_vk_id_by_post_id returns to the tick of job j with the vk_id.
TickResolveOk(j) ==
    /\ j \in DOMAIN jobs
    /\ TickResolve(j, 1)
    /\ jobs' # TickEnd(j, 1)

\* call_vk returns Ok to the tick of job j.
TickFetchOk(j) ==
    /\ j \in DOMAIN jobs
    /\ TickFetch(j, 1)
    /\ jobs' # TickEnd(j, 1)

\* save_post_info returns Ok to the tick of job j.
TickSaveOk(j) ==
    /\ j \in DOMAIN jobs
    /\ TickSave(j, 1)
    /\ POST_INFO' # POST_INFO

\* The clock advances past no instant at which a job is due: the
\* scheduler, once started, fires every job at each instant of its cron
\* expression.
AdvancePunctual == Advance /\ \A j \in DOMAIN jobs : ~Due(j)

\* The first request arrives.
ReqStartFirst == ReqStart(1) /\ nreq = 0

\* One request on an empty store and the job it adds, with the scheduler
\* running and every statement and every call_vk of a tick returning Ok.
\* How long the request handler and a tick take is left open.
NextSampling ==
    \/ AdvancePunctual
    \/ ReqStartFirst
    \/ TxBegin(1)
    \/ TxSelect(1)
    \/ TxWrite(1)
    \/ TxFail(1)
    \/ ReqSchedule(1)
    \/ \E j \in DOMAIN jobs : TickFireChecked(j)
    \/ \E j \in DOMAIN jobs : TickResolveOk(j)
    \/ \E j \in DOMAIN jobs : TickFetchOk(j)
    \/ \E j \in DOMAIN jobs : TickSaveOk(j)

SpecSampling ==
    /\ Init
    /\ [][NextSampling]_vars
    /\ \A j \in JobIds :
          /\ WF_vars(TickFireChecked(j))
          /\ WF_vars(TickResolveOk(j))
          /\ WF_vars(TickFetchOk(j))
          /\ WF_vars(TickSaveOk(j))

\* A request that is not for "-2_2" arrives.
ReqStartOne == ReqStart(1) /\ procs'[1].vk_id # "-2_2"

\* The scheduler and its jobs as in SpecPolling with every request for
\* the one resource "-1_1" (or with an invalid link), for the runs in
\* which the expiry check of every tick succeeds.
NextExpiry ==
    \/ Advance
    \/ ReqStartOne
    \/ TxBegin(1)
    \/ TxSelect(1)
    \/ TxWrite(1)
    \/ TxFail(1)
    \/ ReqSchedule(1)
    \/ \E j \in DOMAIN jobs : TickFireChecked(j)
    \/ \E j \in DOMAIN jobs : TickResolve(j, 1)
    \/ \E j \in DOMAIN jobs : TickFetch(j, 1)
    \/ \E j \in DOMAIN jobs : TickSave(j, 1)

\* The scheduler is running: a job that is due to fire does fire.
SpecExpiry ==
    /\ Init
    /\ [][NextExpiry]_vars
    /\ \A j \in JobIds : WF_vars(TickFireChecked(j))

\* The clock readings of the runs that follow a job over a minute.
CronHorizon == 61

\* The values of POOLING_DELTA_SECONDS of those runs: one that divides 60
\* and one that does not.
CronDeltas == {7, 30}

\* The process has one window, open until CronHorizon, and its job, added
\* at 0; POOLING_DELTA_SECONDS is any of CronDeltas.
InitCron ==
    /\ now = 0
    /\ POST = << [vk_id |-> "-1_1", dt_parse_begin |-> 0,
                  dt_parse_end |-> CronHorizon] >>
    /\ POST_INFO = <<>>
    /\ jobs = << NewJob(1) >>
    /\ procs = [p \in Procs |-> IdleProc]
    /\ nreq = 1
    /\ calls = <<>>
    /\ outcome = "Ok"
    /\ env \in [period : { {CronHorizon} }, delta : { {d} : d \in CronDeltas }]
    /\ boot = Serving
    /\ deleted = {}
    /\ reader = IdleReader

\* The clock advances up to CronHorizon, past no instant at which a job
\* is due.
AdvanceCron ==
    /\ now < CronHorizon
    /\ \A j \in DOMAIN jobs : ~Due(j)
    /\ now' = now + 1
    /\ UNCHANGED <<POST, POST_INFO, jobs, procs, nreq, calls, outcome, process>>

\* call_vk returns Err to the tick of job j.
TickFetchErr(j) == TickFetch(j, 1) /\ jobs' = TickEnd(j, 1)

\* The job of such a process over a minute and one second, with the
\* scheduler running and VK answering no call; how long a tick takes is
\* left open.
NextCron ==
    \/ AdvanceCron
    \/ \E j \in DOMAIN jobs : TickFire(j, 1)
    \/ \E j \in DOMAIN jobs : TickResolve(j, 1)
    \/ \E j \in DOMAIN jobs : TickFetchErr(j)

SpecCron == InitCron /\ [][NextCron]_vars

\* A request arrives while VK answers every call with the counters of
\* the post.
ReqStartAnswered ==
    \E link \in Links, prolong \in BOOLEAN :
        /\ ReqStartWith(1, link, prolong)
        /\ link[1] = WallPrefix => procs'[1].pc = "begin"

\* has_recent_post_info, Job::new_async and scheduler.add return Ok.
ReqScheduleOk == ReqSchedule(1) /\ outcome' = "Ok"

\* Requests with valid and invalid links beside the ticks of the jobs,
\* for the runs in which VK and the database answer every call with Ok:
\* the link is all a request can be rejected for.
NextBadLink ==
    \/ Advance
    \/ ReqStartAnswered
    \/ TxBegin(1)
    \/ TxSelect(1)
    \/ TxWrite(1)
    \/ ReqScheduleOk
    \/ \E j \in DOMAIN jobs : TickFireChecked(j)
    \/ \E j \in DOMAIN jobs : TickResolveOk(j)
    \/ \E j \in DOMAIN jobs : TickFetchOk(j)
    \/ \E j \in DOMAIN jobs : TickSaveOk(j)

SpecBadLink == Init /\ [][NextBadLink]_vars

\* ------------------------------------------------------------ the claims

\* Two committed get_or_create calls whose transactions overlapped.
Concurrent(i, j) == i # j /\ calls[j].n \in calls[i].with

\* Call j arrived after call i and its transaction began after the
\* transaction of i had committed.
After(i, j) == calls[i].n < calls[j].n /\ calls[i].n \notin calls[j].with

\* The windows of vk_id with windowStart <= now <= windowEnd.
OpenInclusive(vk_id) ==
    { w \in DOMAIN POST :
        /\ POST[w].vk_id = vk_id
        /\ POST[w].dt_parse_begin <= now
        /\ now <= POST[w].dt_parse_end }

VkIds == { strip_prefix(l) : l \in Links } \ {None}

NoTxInFlight == \A p \in Procs : ~InTx(p)

\* C1: concurrent get_or_create_post_with_prolong calls for one vk_id all
\* return the same window id, and once they have all committed exactly one
\* window of that vk_id contains the current time.
C1_ConcurrentCallsAgree ==
    /\ \A i, j \in DOMAIN calls :
          (Concurrent(i, j) /\ calls[i].post.vk_id = calls[j].post.vk_id)
              => calls[i].post.id = calls[j].post.id
    /\ \A i, j \in DOMAIN calls :
          (/\ Concurrent(i, j)
           /\ calls[i].post.vk_id = calls[j].post.vk_id
           /\ NoTxInFlight
           /\ now = calls[i].tx /\ now = calls[j].tx)
              => Cardinality(OpenInclusive(calls[i].post.vk_id)) = 1

\* No two get_or_create transactions have overlapped so far.
NeverOverlapped ==
    /\ \A i \in DOMAIN calls : calls[i].with = {}
    /\ \A p \in Procs : procs[p].with = {}

\* C2: at every instant each vk_id has at most one window with
\* windowStart <= now <= windowEnd.  Stated here for the runs in which the
\* calls never overlap, which are among the runs the claim covers.
C2_AtMostOneOpenInclusive ==
    NeverOverlapped =>
        \A v \in VkIds : Cardinality(OpenInclusive(v)) <= 1

\* The step in which the transaction of p writes and commits.
Commits(p) == procs[p].pc = "write" /\ procs'[p].pc = "check"

\* What the call committed in this step returned.
Returned == calls'[Len(calls')].post

C4_Step ==
    \A p \in Procs :
        (Commits(p) /\ procs[p].row # 0 /\ ~procs[p].prolong) =>
            /\ POST' = POST
            /\ procs'[p].ret = procs[p].row
            /\ Returned = PostDetails(procs[p].row, POST[procs[p].row])

C4_TwoCalls ==
    \A i, j \in DOMAIN calls :
        (/\ i < j
         /\ calls[i].post.id = calls[j].post.id
         /\ ~calls[i].prolong
         /\ ~calls[j].prolong /\ calls[j].found
         /\ \A k \in DOMAIN calls :
               (i < k /\ k < j /\ calls[k].post.id = calls[i].post.id)
                   => ~calls[k].prolong)
            => calls[j].post = calls[i].post

\* C4: a call with prolong = false that finds an open window returns that
\* window and leaves POST unchanged; two such calls on one window, with no
\* extension committed between them, return the same dt_parse_end.
C4_ExtendFalseLeavesWindow == [][C4_Step]_vars /\ []C4_TwoCalls

\* C4 witness: a call without prolong found the window an earlier call
\* without prolong returned, at a later time.
C4_Witness ==
    \E i, j \in DOMAIN calls :
        /\ i < j
        /\ calls[i].post.id = calls[j].post.id
        /\ ~calls[i].prolong /\ ~calls[j].prolong /\ calls[j].found
        /\ calls[j].tx > calls[i].tx

\* C5 as claimed: a second call with prolong = true, made after the first
\* one returned, returns the same window with a strictly greater
\* dt_parse_end.
C5_SecondExtendGreater ==
    \A i, j \in DOMAIN calls :
        (/\ After(i, j)
         /\ calls[i].prolong /\ calls[j].prolong
         /\ calls[i].post.id = calls[j].post.id)
            => calls[j].post.dt_parse_end > calls[i].post.dt_parse_end

\* C5 amended: of two calls with prolong = true that return the same
\* window, each returns dt_parse_end = its transaction's time + period,
\* so the second is strictly greater exactly when its transaction began
\* at a later clock reading, and equal when the readings are equal.
C5_ExtendGreaterIffLater ==
    \A i, j \in DOMAIN calls :
        (/\ i # j
         /\ calls[i].prolong /\ calls[j].prolong
         /\ calls[i].post.id = calls[j].post.id)
            => /\ (calls[j].post.dt_parse_end > calls[i].post.dt_parse_end)
                      <=> (calls[j].tx > calls[i].tx)
               /\ (calls[j].post.dt_parse_end = calls[i].post.dt_parse_end)
                      <=> (calls[j].tx = calls[i].tx)

\* C5 witness: a second call with prolong = true, later than the first,
\* extended the window the first returned.
C5_Witness ==
    \E i, j \in DOMAIN calls :
        /\ After(i, j)
        /\ calls[i].prolong /\ calls[j].prolong /\ calls[j].found
        /\ calls[i].post.id = calls[j].post.id
        /\ calls[j].tx > calls[i].tx
        /\ calls[j].post.dt_parse_end > calls[i].post.dt_parse_end

\* C6 as claimed: the row is written with the clock reading of the
\* instant of the write: a created window is [now, now + period] and an
\* extension sets dt_parse_end = now + period.
C6_FromTimeOfWrite ==
    [][\A p \in Procs :
          (Commits(p) /\ (procs[p].row = 0 \/ procs[p].prolong)) =>
              /\ Returned.dt_parse_end = now + get_pooling_period_seconds
              /\ procs[p].row = 0 => Returned.dt_parse_begin = now]_vars

\* C6 amended: with T the clock reading at which the call's transaction
\* began, a created window is [T, T + period] and an extension sets
\* dt_parse_end = T + period, keeping dt_parse_begin: measured from the
\* call's own time, not from the previous dt_parse_end.  T is the time of
\* the write only when the clock did not advance during the call.
C6_FromTransactionTime ==
    [][\A p \in Procs :
          (Commits(p) /\ (procs[p].row = 0 \/ procs[p].prolong)) =>
              /\ Returned.dt_parse_end =
                     procs[p].tx + get_pooling_period_seconds
              /\ POST'[Returned.id] =
                     [vk_id |-> procs[p].vk_id,
                      dt_parse_begin |-> Returned.dt_parse_begin,
                      dt_parse_end |-> Returned.dt_parse_end]
              /\ procs[p].row = 0 => Returned.dt_parse_begin = procs[p].tx
              /\ procs[p].row # 0 =>
                     Returned.dt_parse_begin =
                         POST[procs[p].row].dt_parse_begin]_vars

\* C6 witness: a window created at one time was extended at a later time,
\* before its end: its dt_parse_end is the later time + period.
C6_Witness ==
    \E i, j \in DOMAIN calls :
        /\ ~calls[i].found /\ calls[j].found /\ calls[j].prolong
        /\ calls[i].post.id = calls[j].post.id
        /\ calls[j].tx > calls[i].tx
        /\ calls[j].post.dt_parse_end =
               calls[j].tx + get_pooling_period_seconds
        /\ POST[calls[j].post.id].dt_parse_end = calls[j].post.dt_parse_end

\* The live jobs bound to window w.
LiveJobs(w) == { j \in DOMAIN jobs : jobs[j].live /\ jobs[j].post_id = w }

\* C3: no window has more than one live recurring job bound to it.
C3_OneLiveJobPerWindow ==
    \A w \in DOMAIN POST : Cardinality(LiveJobs(w)) <= 1

\* The age of the newest sample of w (w has samples).
NewestAge(w) ==
    LET t == CHOOSE t \in { POST_INFO[k].info_time : k \in SamplesOf(w) } :
                 \A k \in SamplesOf(w) : POST_INFO[k].info_time <= t
    IN  now - t

C7_State ==
    \A w \in DOMAIN POST :
        IF SamplesOf(w) = {}
        THEN shouldSchedule(w)
        ELSE /\ NewestAge(w) < 2 * get_pooling_delta_seconds
                    => ~shouldSchedule(w)
             /\ NewestAge(w) > 2 * get_pooling_delta_seconds
                    => shouldSchedule(w)

C7_Step ==
    \A w \in 1..MaxReq :
        (/\ Len(POST_INFO') > Len(POST_INFO)
         /\ POST_INFO'[Len(POST_INFO')].post_id = w) =>
            ~(shouldSchedule(w))'

\* C7: shouldSchedule is false in the state right after a sample is
\* appended to the window and while the newest sample is younger than
\* 2 * delta; it is true once the newest sample is older than 2 * delta,
\* and for a window with no samples.
C7_GateFollowsSampleAge == [][C7_Step]_vars /\ []C7_State

\* C7 witness: a window has a sample and the clock has advanced past
\* 2 * delta since its newest one.
C7_Witness ==
    \E w \in DOMAIN POST :
        /\ SamplesOf(w) # {}
        /\ NewestAge(w) > 2 * get_pooling_delta_seconds
        /\ shouldSchedule(w)

\* Window w has a sample newer than 2 * delta.
RecentSample(w) ==
    \E k \in SamplesOf(w) :
        now - POST_INFO[k].info_time < 2 * get_pooling_delta_seconds

\* C8: a request that succeeds adds one job, bound to the window it
\* returns, exactly when that window has no sample newer than 2 * delta at
\* the check; otherwise the set of jobs is unchanged.
C8_ScheduleIffGateOpen ==
    [][\A p \in Procs :
          (procs[p].pc = "check" /\ procs'[p].pc = "idle"
                                 /\ outcome' = "Ok") =>
              IF RecentSample(procs[p].ret)
              THEN jobs' = jobs
              ELSE /\ Len(jobs') = Len(jobs) + 1
                   /\ \A j \in DOMAIN jobs : jobs'[j] = jobs[j]
                   /\ jobs'[Len(jobs')].post_id = procs[p].ret
                   /\ jobs'[Len(jobs')].live
                   /\ jobs'[Len(jobs')].pc = "idle"]_vars

\* C8 witness: a second request for a window was answered Ok without a
\* job being added, while the window had a recent sample.
C8_Witness ==
    /\ outcome = "Ok"
    /\ Len(calls) = 2 /\ Len(jobs) = 1
    /\ calls[1].post.id = calls[2].post.id
    /\ RecentSample(calls[2].post.id)

\* Job j starts a tick in this step.
Fires(j) == jobs[j].live /\ jobs[j].pc = "idle" /\ jobs'[j] # jobs[j]

C9_Step ==
    \A j \in DOMAIN jobs :
        (/\ Fires(j)
         /\ jobs[j].post_id \in DOMAIN POST
         /\ now > POST[jobs[j].post_id].dt_parse_end
         /\ outcome' # "TickErr") =>
            /\ ~jobs'[j].live
            /\ jobs'[j].pc = "idle"
            /\ outcome' = "TickOk"
            /\ POST_INFO' = POST_INFO

C9_State == \A j \in DOMAIN jobs : ~jobs[j].live => jobs[j].pc = "idle"

\* C9: a tick that finds now > dt_parse_end (its query succeeding) removes
\* its job and returns Ok without going on to call_vk and without
\* appending a row; a removed job has no tick in flight.
C9_ExpiredTickStops == [][C9_Step]_vars /\ []C9_State

\* C9 witness: a job was removed by its tick after its window expired.
C9_Witness ==
    \E j \in DOMAIN jobs :
        /\ ~jobs[j].live
        /\ now > POST[jobs[j].post_id].dt_parse_end
        /\ outcome = "TickOk"

C10_Step ==
    /\ \A j \in DOMAIN jobs :
          (jobs[j].pc = "save" /\ jobs'[j].pc = "idle"
                               /\ outcome' = "TickOk") =>
              /\ Len(POST_INFO') = Len(POST_INFO) + 1
              /\ \A k \in DOMAIN POST_INFO : POST_INFO'[k] = POST_INFO[k]
              /\ LET r == POST_INFO'[Len(POST_INFO')]
                      v == jobs[j].stats
                 IN  /\ r.post_id = jobs[j].post_id
                     /\ v.likes_count[1] = 0 => r.likes_count = v.likes_count[2]
                     /\ v.comments_count[1] = 0 => r.comments_count = v.comments_count[2]
                     /\ v.reposts_count[1] = 0 => r.reposts_count = v.reposts_count[2]
                     /\ v.views_count[1] = 0 => r.views_count = v.views_count[2]
                     /\ r.job = j
    /\ POST_INFO' # POST_INFO =>
          \E j \in DOMAIN jobs :
              jobs[j].pc = "save" /\ jobs'[j].pc = "idle"
                                  /\ outcome' = "TickOk"
    /\ \A j \in DOMAIN jobs :
          (jobs[j].pc = "fetch" /\ jobs'[j].pc = "save") =>
              POST_INFO' = POST_INFO

C10_State ==
    \A w \in DOMAIN POST : \A L \in post_info_ordered(w) :
        \A a, b \in DOMAIN L :
            (a < b /\ POST_INFO[L[a]].job = POST_INFO[L[b]].job)
                => L[a] < L[b]

\* C10: each successful tick appends exactly one row, to its window, with
\* the counters call_vk returned to it (counters below 2^31), and nothing
\* else appends; read in
\* info_time order, the rows of a job come in the order of its ticks.
C10_TicksAccumulateInOrder == [][C10_Step]_vars /\ []C10_State

\* C10 witness: three ticks of one job saved three samples with
\* different values to its window.
C10_Witness ==
    /\ Len(POST_INFO) = 3
    /\ \A k \in DOMAIN POST_INFO :
          POST_INFO[k].job = POST_INFO[1].job /\ POST_INFO[k].post_id = 1
    /\ POST_INFO[1].views_count # POST_INFO[2].views_count
    /\ POST_INFO[2].views_count # POST_INFO[3].views_count

\* Window i has no row of POST_INFO newer than 2 * delta.
Stale(i) ==
    \A k \in SamplesOf(i) :
        now - POST_INFO[k].info_time >= 2 * get_pooling_delta_seconds

\* The jobs bound to window i.
JobsOf(i) == { j \in DOMAIN jobs : jobs[j].post_id = i }

C11_Query ==
    (boot.phase = "init" /\ boot'.phase # "init"
                         /\ boot'.result # "QueryErr") =>
        LET need == { i \in DOMAIN POST :
                        POST[i].dt_parse_end > now /\ Stale(i) }
        IN  IF need = {}
            THEN boot'.phase = "serving" /\ boot'.result = "Ok"
                                         /\ jobs' = jobs
            ELSE boot'.phase = "loop" /\ boot'.found = need

C11_Done ==
    (boot.phase = "serving" /\ boot.result = "Ok") =>
        \A i \in DOMAIN POST :
            /\ Cardinality(JobsOf(i)) = IF i \in boot.found THEN 1 ELSE 0
            /\ \A j \in JobsOf(i) : jobs[j].live

\* C11: init_all_tasks, when its query and every Job::new_async and
\* scheduler.add succeed, returns Ok with exactly one job for each window
\* that had dt_parse_end > now and no row newer than 2 * delta at the
\* query, and none for any other window; on an empty store it adds no job
\* and returns Ok.
C11_ReconcilerSchedulesStaleOpen == [][C11_Query]_vars /\ []C11_Done

\* C11 witness: a store with an open window with a stale row, an open
\* window with a fresh row and an expired window; one job, for the first.
C11_Witness ==
    /\ boot.phase = "serving" /\ boot.result = "Ok"
    /\ Len(jobs) = 1
    /\ \E a, b, c \in DOMAIN POST :
          /\ jobs[1].post_id = a
          /\ SamplesOf(a) # {} /\ POST[a].dt_parse_end > now
          /\ POST[b].dt_parse_end > now /\ ~Stale(b)
          /\ POST[c].dt_parse_end < now

\* C15: when get_posts_needing_polling returns Err at startup, the process
\* does not get to serve requests.
C15_QueryFailureAbortsStartup ==
    boot.result = "QueryErr" => boot.phase # "serving"

\* C16: when init_all_tasks is over, every window the query returned,
\* other than the one whose job could not be created or added, has its
\* job.
C16_FailedWindowIsSkipped ==
    boot.phase = "serving" =>
        \A i \in boot.found \ boot.failed : JobsOf(i) # {}

\* The window of job j is past its end or has no row.
Expired(j) ==
    \/ jobs[j].post_id \notin DOMAIN POST \ deleted
    \/ now > POST[jobs[j].post_id].dt_parse_end

\* C12: is_ready_to_finish, as the tick that calls it takes it, is true
\* only when now > dt_parse_end or no row has the id (the tick removes the
\* job), and false only for an existing row with now <= dt_parse_end (the
\* tick goes on); a tick that does neither had its query fail.
C12_ExpiredIffPastEndOrMissing ==
    [][\A j \in DOMAIN jobs :
          Fires(j) =>
              /\ ~jobs'[j].live => Expired(j)
              /\ jobs'[j].pc = "resolve" => ~Expired(j)
              /\ \/ ~jobs'[j].live
                 \/ jobs'[j].pc = "resolve"
                 \/ outcome' = "TickErr"]_vars

\* C12 witness: a job was removed because its window has no row, before
\* the window's end.
C12_Witness ==
    \E j \in DOMAIN jobs :
        /\ ~jobs[j].live
        /\ jobs[j].post_id \in deleted
        /\ now <= POST[jobs[j].post_id].dt_parse_end
        /\ outcome = "TickOk"

\* C14: a tick that finds no row when it resolves the vk_id of its window
\* removes its job.
C14_MissingRowRemovesJob ==
    [][\A j \in DOMAIN jobs :
          (/\ jobs[j].pc = "resolve"
           /\ jobs'[j].pc # "resolve"
           /\ jobs[j].post_id \in deleted
           /\ outcome' = "TickErr") => ~jobs'[j].live]_vars

\* The tick of job j returns Err in this step.
Fails(j) ==
    /\ jobs[j].pc # jobs'[j].pc \/ Fires(j)
    /\ jobs'[j].pc = "idle"
    /\ outcome' = "TickErr"

C13_Step ==
    \A j \in DOMAIN jobs :
        /\ Fails(j) => /\ POST_INFO' = POST_INFO
                       /\ jobs'[j].live
                       /\ jobs'[j].post_id = jobs[j].post_id
        /\ (jobs[j].live /\ ~jobs'[j].live) =>
               Expired(j) /\ outcome' = "TickOk"

C13_State ==
    \A j \in DOMAIN jobs :
        (/\ jobs[j].live /\ jobs[j].pc = "idle"
         /\ jobs[j].last < now
         /\ CronMatches(now, get_pooling_delta_seconds)) =>
            ENABLED TickFire(j, 1)

\* C13: a tick that returns Err, from whichever call, appends no row and
\* leaves its job in the scheduler, which fires it again at the next
\* instant of its cron expression; a job leaves the scheduler only in a
\* tick that found its window expired.
C13_FailedTickKeepsJob == [][C13_Step]_vars /\ []C13_State

\* C13 witness: a job whose tick has just returned Err, with no row saved
\* for its window so far, is live and idle.
C13_Witness ==
    \E j \in DOMAIN jobs :
        /\ jobs[j].live /\ jobs[j].pc = "idle"
        /\ jobs[j].last = now /\ now >= 2
        /\ SamplesOf(jobs[j].post_id) = {}
        /\ outcome = "TickErr"

\* C17: a job never has two ticks in flight.
C17_TicksNeverOverlap ==
    \A j \in DOMAIN jobs : jobs[j].pc = "idle" \/ jobs[j].pc2 = "idle"

\* C18: no step lowers the dt_parse_end of a window.
C18_WindowEndNeverDecreases ==
    [][\A i \in DOMAIN POST :
          POST'[i].dt_parse_end >= POST[i].dt_parse_end]_vars

\* C19: a window that a tick has found expired, removing its job, is
\* closed from then on.
C19_ClosedWindowStaysClosed ==
    \A j \in DOMAIN jobs :
        ~jobs[j].live => now > POST[jobs[j].post_id].dt_parse_end

\* C20: every row of POST has dt_parse_end >= dt_parse_begin, whatever
\* POOLING_PERIOD_SECONDS is.
C20_EndNotBeforeStart ==
    \A i \in DOMAIN POST : POST[i].dt_parse_end >= POST[i].dt_parse_begin

\* C21: a process started with POOLING_PERIOD_SECONDS or
\* POOLING_DELTA_SECONDS unset (or not a number) never comes to serve
\* requests and never has a job in its scheduler.
C21_BadConfigNeverServes ==
    (env.period = {} \/ env.delta = {}) =>
        (boot.phase # "serving" /\ jobs = <<>>)

\* C22: every tick that starts returns, whether or not the server
\* call_vk asks ever answers.
C22_EveryTickFinishes ==
    \A j \in JobIds :
        [](  (j \in DOMAIN jobs /\ jobs[j].pc # "idle")
              => <>(j \in DOMAIN jobs /\ jobs[j].pc = "idle"))

\* The dt_parse_end of the window of job j has passed and is final: no
\* transaction in flight has selected the window or may still select it.
EndPassed(j) ==
    LET w == jobs[j].post_id IN
    /\ w \in Rows
    /\ now > POST[w].dt_parse_end
    /\ \A p \in Procs :
          /\ ~(procs[p].pc = "select"
                  /\ w \in OpenRows(procs[p].vk_id, procs[p].tx))
          /\ ~(procs[p].pc = "write" /\ procs[p].row = w)

Terminated(j) == j \in DOMAIN jobs /\ ~jobs[j].live

\* A job out of the scheduler stays out and starts no tick.
C23_Step ==
    \A j \in DOMAIN jobs :
        ~jobs[j].live => (~jobs'[j].live /\ jobs'[j].pc = "idle")

JobSampled(j) ==
    /\ j \in DOMAIN jobs
    /\ \E k \in SamplesOf(jobs[j].post_id) : POST_INFO[k].job = j

\* The window of job j has not expired: is_ready_to_finish is false.
NotExpired(j) == now <= POST[jobs[j].post_id].dt_parse_end

\* The request in flight created its window (it found none open).
CreatedWindow(p) ==
    \E c \in DOMAIN calls : calls[c].n = procs[p].n /\ ~calls[c].found

\* A request that created its window and answers Ok has added a job for
\* that window.
C24_Step ==
    \A p \in Procs :
        (/\ procs[p].pc = "check"
         /\ procs'[p].pc = "idle"
         /\ outcome' = "Ok"
         /\ CreatedWindow(p))
            => jobs' = Append(jobs, NewJob(procs[p].ret))

PastChecks(p) == procs[p].pc \in {"begin", "select", "write", "check"}

\* The step in which a request arrives and is answered at once: no
\* handler is left in flight for it.
Rejected == nreq' = nreq + 1 /\ procs' = procs

C25_Step ==
    /\ Rejected =>
          /\ outcome' = "BadRequest"
          /\ POST' = POST /\ jobs' = jobs /\ calls' = calls
    /\ (POST' # POST \/ Len(jobs') > Len(jobs)) =>
          \E q \in Procs :
              PastChecks(q) /\ procs[q].stats # ZeroStats

\* C25: a request goes on to get_or_create_post_with_prolong only with
\* stats that call_vk returned and that are not all zero; a request
\* answered before that gets BadRequest and changes no row of POST and no
\* job, and only requests that went on write POST or add a job.
C25_EmptyOrFailedFetchRejected ==
    /\ [](\A p \in Procs :
             PastChecks(p) => procs[p].stats # ZeroStats)
    /\ [][C25_Step]_vars

\* C25 witness: a request has been answered BadRequest before any
\* transaction, with no window and no job in the store.
C25_Witness ==
    /\ nreq >= 1
    /\ outcome = "BadRequest"
    /\ \A p \in Procs : procs[p].pc = "idle"
    /\ POST = <<>> /\ jobs = <<>> /\ calls = <<>>

\* C26: every row of POST_INFO a tick saved holds, in each counter, the
\* number call_vk returned to that tick.
C26_StoredEqualsFetched ==
    \A k \in DOMAIN POST_INFO :
        POST_INFO[k].job # 0 =>
            /\ POST_INFO[k].raw.likes_count = U64(POST_INFO[k].likes_count)
            /\ POST_INFO[k].raw.comments_count
                  = U64(POST_INFO[k].comments_count)
            /\ POST_INFO[k].raw.reposts_count
                  = U64(POST_INFO[k].reposts_count)
            /\ POST_INFO[k].raw.views_count = U64(POST_INFO[k].views_count)

C27_State ==
    LET r == reader.resp IN
    /\ r.status = "Ok" => r.id \in Rows
    /\ r.body = "not found" => r.id \notin Rows
    /\ (r.status = "Ok" /\ r.data = <<>>) => SamplesOf(r.id) = {}

C27_Step ==
    /\ (reader.pc = "idle" /\ reader' # reader /\ reader'.id \notin Rows)
          => (reader'.pc = "idle" /\ reader'.resp.status = "NotFound")
    /\ (/\ reader.pc = "info"
        /\ reader'.pc = "idle"
        /\ SamplesOf(reader.id) = {}
        /\ reader'.resp.body # "Database error")
          => (reader'.resp.status = "Ok" /\ reader'.resp.data = <<>>)

\* C27: GET /polling for an id with no row in POST is answered NotFound,
\* and for a row of POST with no rows in POST_INFO, when the queries
\* succeed, Ok with empty data; an Ok answer is for a row that exists, an
\* Ok answer with empty data for one with no row in POST_INFO, and the
\* "not found" answer for an id with no row.
C27_MissingIsNotEmpty == []C27_State /\ [][C27_Step]_vars

\* C27 witness: a window with no rows in POST_INFO, beside one that has
\* rows, has been read and answered Ok with empty data.
C27_Witness ==
    /\ reader.resp.status = "Ok"
    /\ reader.resp.data = <<>>
    /\ reader.resp.id \in Rows
    /\ POST_INFO # <<>>

\* C28: the data of an Ok answer are the rows of POST_INFO of the window
\* asked for, each once and no other, with info_time ascending.
C28_AllOfWindowAscending ==
    LET r == reader.resp IN
    r.status = "Ok" =>
        /\ { r.rows[a] : a \in DOMAIN r.rows } = SamplesOf(r.id)
        /\ Len(r.data) = Cardinality(SamplesOf(r.id))
        /\ \A a \in DOMAIN r.data : r.data[a] = PostInfoData(r.rows[a])
        /\ \A a, b \in DOMAIN r.data :
              a < b => r.data[a].info_time <= r.data[b].info_time

\* C28 witness: an Ok answer with two rows of which the earlier stamped
\* was inserted later, the store holding a row of another window too.
C28_Witness ==
    LET r == reader.resp IN
    /\ r.status = "Ok"
    /\ Len(r.data) = 2
    /\ r.rows[1] > r.rows[2]
    /\ r.data[1].info_time < r.data[2].info_time
    /\ \E k \in DOMAIN POST_INFO : POST_INFO[k].post_id # r.id

\* A request has arrived or is being handled.
RequestSeen == nreq > 0 \/ \E p \in Procs : procs[p].pc # "idle"

C29_Step ==
    /\ boot.phase = "serving" => boot' = boot
    /\ boot.phase # "serving" => (procs' = procs /\ nreq' = nreq)
    /\ boot' # boot => ~RequestSeen

\* C29: init_all_tasks has returned (Ok or Err) before any request is
\* handled, it is not run again, and no step of a request handler is taken
\* while it runs.
C29_ReconcileBeforeRequests ==
    /\ [](RequestSeen => (boot.phase = "serving" /\ boot.result # "none"))
    /\ [][C29_Step]_vars

\* C29 witness: a request has added a job after init_all_tasks had added
\* one for the window found in the store.
C29_Witness ==
    /\ boot.phase = "serving"
    /\ boot.found # {}
    /\ boot.result = "Ok"
    /\ nreq >= 1
    /\ Len(jobs) >= 2

\* The request handlers with a transaction open.
OpenTx == { p \in Procs : InTx(p) }

\* The step in which call_vk returns to the request handler p.
FetchReturns(p) ==
    procs[p].pc = "idle" /\ (procs'[p].pc # "idle" \/ nreq' # nreq)

\* The step in which call_vk returns to a tick of job j.
TickFetchReturns(j) == jobs[j].pc = "fetch" /\ jobs'[j].pc # "fetch"

C30_Step ==
    /\ \A p \in Procs :
          FetchReturns(p) => (p \notin OpenTx /\ p \notin OpenTx')
    /\ \A p \in Procs :
          (procs[p].pc # "idle" /\ procs'[p].pc # "idle")
              => procs'[p].stats = procs[p].stats
    /\ \A j \in DOMAIN jobs :
          TickFetchReturns(j) =>
              (OpenTx' = OpenTx /\ POST' = POST /\ POST_INFO' = POST_INFO)

\* C30: a request handler has its stats from call_vk before its
\* transaction begins and makes no call_vk from then on, and the step
\* in which call_vk returns to a tick opens, commits and writes nothing:
\* the statements of a tick are transactions of their own.
C30_NoTxAcrossFetch ==
    /\ [](\A p \in Procs : InTx(p) => procs[p].stats # ZeroStats)
    /\ [][C30_Step]_vars

\* C30 witness: a request handler is in its transaction, with the stats
\* it fetched, while a tick is waiting for call_vk.
C30_Witness ==
    /\ \E p \in Procs : InTx(p) /\ procs[p].stats # ZeroStats
    /\ \E j \in DOMAIN jobs : jobs[j].pc = "fetch"

\* The call of get_or_create_post_with_prolong of p returns Err in this
\* step.
TxFails(p) ==
    /\ procs[p].pc \in {"begin", "select", "write"}
    /\ procs'[p].pc = "idle"

C31_Step ==
    /\ \A p \in Procs :
          TxFails(p) =>
              /\ POST' = POST
              /\ outcome' = "BadRequest"
              /\ procs'[p] = IdleProc
              /\ calls' = calls /\ jobs' = jobs /\ nreq' = nreq
    /\ POST' # POST => \E p \in Procs : Commits(p)

\* C31: when get_or_create_post_with_prolong fails before its commit, at
\* begin, at the SELECT (a lock wait included) or at the UPDATE or INSERT,
\* the request is answered with the error and the handler is free again,
\* with no second attempt, and POST is as it was: no row added, no
\* dt_parse_end changed.  POST changes only in a step that commits.
C31_FailedCallLeavesWindows == [][C31_Step]_vars

\* C31 witness: a request whose transaction overlapped that of a
\* committed call has returned without a committed call of its own, and
\* POST holds the one row of the committed call.
C31_Witness ==
    /\ \A p \in Procs : procs[p].pc = "idle"
    /\ outcome = "BadRequest"
    /\ Len(POST) = 1
    /\ \E i \in DOMAIN calls :
          /\ POST[1] = [vk_id |-> calls[i].post.vk_id,
                        dt_parse_begin |-> calls[i].post.dt_parse_begin,
                        dt_parse_end |-> calls[i].post.dt_parse_end]
          /\ \E n \in calls[i].with :
                \A k \in DOMAIN calls : calls[k].n # n

\* The tick in slot s of job j is in flight.
InFlight(j, s) == PcOf(j, s) # "idle"

\* The step of the tick in slot s of job j that is due next.
TickStep(j, s) ==
    \/ TickResolve(j, s)
    \/ TickFetch(j, s)
    \/ TickSave(j, s)

C32_Step ==
    \A j \in DOMAIN jobs :
        \* out of the scheduler: it stays out and no tick of it starts
        /\ ~jobs[j].live =>
              /\ ~jobs'[j].live
              /\ jobs[j].pc = "idle" => jobs'[j].pc = "idle"
              /\ jobs[j].pc2 = "idle" => jobs'[j].pc2 = "idle"
              /\ (jobs[j].pc = "idle" /\ jobs[j].pc2 = "idle") =>
                    (POST_INFO' # POST_INFO =>
                        POST_INFO'[Len(POST_INFO')].job # j)
        \* the removing tick leaves the other tick of the job as it is
        /\ (jobs[j].live /\ ~jobs'[j].live) =>
              /\ jobs[j].pc # "idle" =>
                    /\ jobs'[j].pc = jobs[j].pc
                    /\ jobs'[j].stats = jobs[j].stats
              /\ jobs[j].pc2 # "idle" =>
                    /\ jobs'[j].pc2 = jobs[j].pc2
                    /\ jobs'[j].stats2 = jobs[j].stats2

C32_State ==
    \A j \in DOMAIN jobs : \A s \in Slots :
        (~jobs[j].live /\ InFlight(j, s)) => ENABLED TickStep(j, s)

\* C32: once a tick that found the window expired has removed its job, the
\* job is never in the scheduler again and no tick of it starts, so it
\* fetches and appends nothing more, except through a tick that was in
\* flight when the job was removed: that tick is left as it is by the
\* removal and can take each of its remaining steps.
C32_RemovedJobStartsNoTick == [][C32_Step]_vars /\ []C32_State

\* C32 witness: a job is out of the scheduler, removed after the end of
\* its window, and a tick of it that was in flight at the removal has
\* since saved its row and returned.
C32_Witness ==
    \E j \in DOMAIN jobs :
        /\ ~jobs[j].live
        /\ jobs[j].pc = "idle" /\ jobs[j].pc2 = "idle"
        /\ \E k \in DOMAIN POST_INFO :
              /\ POST_INFO[k].job = j
              /\ POST_INFO[k].info_time > POST[jobs[j].post_id].dt_parse_end

\* The tick of job j finds its window expired and removes the job in this
\* step.
Terminates(j) == jobs[j].live /\ ~jobs'[j].live

C33_Step ==
    \A j \in DOMAIN jobs :
        (Fails(j) \/ Terminates(j)) =>
            /\ \A k \in DOMAIN jobs \ {j} : jobs'[k] = jobs[k]
            /\ Len(jobs') = Len(jobs)
            /\ POST' = POST
            /\ POST_INFO' = POST_INFO
            /\ procs' = procs
            /\ boot' = boot

\* C33: in a step in which a tick of one job returns Err or removes its
\* job, every other job is as it was, in the scheduler or not and at the
\* same place of its own tick, and POST and POST_INFO, the handlers in
\* flight and the process are unchanged.
C33_TickEndTouchesOnlyItsJob == [][C33_Step]_vars

\* C33 witness: a tick has just removed its job while a job of another
\* window, with a row saved, is in the scheduler.
C33_Witness ==
    \E j, k \in DOMAIN jobs :
        /\ ~jobs[j].live /\ jobs[j].last = now /\ outcome = "TickOk"
        /\ jobs[k].live
        /\ jobs[k].post_id # jobs[j].post_id
        /\ SamplesOf(jobs[k].post_id) # {}

\* The transaction of p commits an UPDATE of row i in this step.
Extends(p, i) == Commits(p) /\ procs[p].row = i /\ procs[p].prolong

C34_Step ==
    \* rows of POST: none leaves, the id (position), vk_id and
    \* dt_parse_begin of each stay, and a row changes only by an UPDATE
    /\ Len(POST') >= Len(POST)
    /\ deleted' = deleted
    /\ \A i \in DOMAIN POST :
          /\ POST'[i].vk_id = POST[i].vk_id
          /\ POST'[i].dt_parse_begin = POST[i].dt_parse_begin
          /\ POST'[i] # POST[i] => \E p \in Procs : Extends(p, i)
    \* rows of POST_INFO: the old ones stay as they are, in their places
    /\ Len(POST_INFO') >= Len(POST_INFO)
    /\ \A k \in DOMAIN POST_INFO : POST_INFO'[k] = POST_INFO[k]

\* C34: no step of a request or of a tick removes a row of POST or changes
\* the id, vk_id or dt_parse_begin of one, and none changes or removes a
\* row of POST_INFO: both relations only grow, and the one change to an
\* existing row is the UPDATE of dt_parse_end by a call with prolong.
C34_RowsOnlyGrow == [][C34_Step]_vars

\* C34 witness: a window was extended by a call with prolong after a row
\* of POST_INFO had been saved for it.
C34_Witness ==
    /\ Len(POST) = 1
    /\ \E i \in DOMAIN calls :
          /\ calls[i].found /\ calls[i].prolong
          /\ calls[i].post.dt_parse_end > calls[i].post.dt_parse_begin
                                            + get_pooling_period_seconds
          /\ POST[calls[i].post.id].dt_parse_end = calls[i].post.dt_parse_end
          /\ \E k \in SamplesOf(calls[i].post.id) :
                POST_INFO[k].info_time < calls[i].tx

\* Job j has fired at this instant.
JustFired(j) == jobs[j].last = now /\ jobs[j].pc = "resolve"

\* C35: when a job has fired, the next instant of its cron expression
\* "*/d", at which the scheduler fires it again, is d seconds later and
\* none is earlier, whatever d is.
C35_FiresEveryDelta ==
    \A j \in DOMAIN jobs :
        JustFired(j) =>
            \A u \in 1..get_pooling_delta_seconds :
                CronMatches(now + u, get_pooling_delta_seconds)
                    <=> (u = get_pooling_delta_seconds)

C36_Step ==
    \A p \in Procs : \A link \in Links : \A prolong \in BOOLEAN :
        (link[1] # WallPrefix /\ ReqStartWith(p, link, prolong)) =>
            /\ outcome' = "BadRequest"
            /\ procs'[p] = IdleProc
            /\ POST' = POST
            /\ POST_INFO' = POST_INFO
            /\ jobs' = jobs
            /\ calls' = calls

\* C36: a request whose vk_link does not start with
\* "https://vk.com/wall" is answered BadRequest in the step in which it
\* arrives, its handler holding no stats of call_vk and entering no
\* transaction, with POST, POST_INFO and the jobs unchanged.
C36_BadLinkRejectedFirst == [][C36_Step]_vars

\* C36 witness: a request was rejected for its link while the store held
\* a window with a row of POST_INFO and its job was in the scheduler.
C36_Witness ==
    /\ outcome = "BadRequest"
    /\ \E j \in DOMAIN jobs :
          /\ jobs[j].live
          /\ SamplesOf(jobs[j].post_id) # {}

\* C37: for every row of POST whose dt_parse_begin has come, the SELECT of
\* get_or_create_post_with_prolong in a transaction begun now finds the
\* row exactly when is_ready_to_finish is false for it, and
\* get_posts_needing_polling, for a row with no rows in POST_INFO, returns
\* it exactly when is_ready_to_finish is false for it.
C37_OpenNotionsAgree ==
    \A i \in Rows :
        POST[i].dt_parse_begin <= now =>
            /\ (i \in OpenRows(POST[i].vk_id, now))
                   <=> ~is_ready_to_finish(i)
            /\ SamplesOf(i) = {} =>
                  ((i \in get_posts_needing_polling)
                       <=> ~is_ready_to_finish(i))

\* C38: every row a tick saves to POST_INFO has an info_time between the
\* dt_parse_begin and the dt_parse_end its window has when the row is
\* saved, however long call_vk took.
C38_SampleWithinWindow ==
    [][Len(POST_INFO') > Len(POST_INFO) =>
          LET r == POST_INFO'[Len(POST_INFO')] IN
          r.post_id \in Rows =>
              /\ POST[r.post_id].dt_parse_begin <= r.info_time
              /\ r.info_time <= POST[r.post_id].dt_parse_end]_vars

\* A request that got window w from get_or_create_post_with_prolong has
\* not been answered yet.
RequestOpenOn(w) == \E p \in Procs : procs[p].pc = "check" /\ procs[p].ret = w

\* C39: a window for which a request has added a job, and on which no
\* request is still to be answered, has a job in the scheduler at every
\* instant up to its dt_parse_end.
C39_OpenWindowHasLiveJob ==
    \A w \in Rows :
        (/\ JobsOf(w) # {}
         /\ ~RequestOpenOn(w)
         /\ now <= POST[w].dt_parse_end) => LiveJobs(w) # {}

\* The committed call of request n inserted a row of POST or updated one.
Wrote(n) ==
    \E i \in DOMAIN calls :
        calls[i].n = n /\ (~calls[i].found \/ calls[i].prolong)

\* C40: a request that post_polling answers with BadRequest has inserted
\* or updated no row of POST and has added no job.
C40_FailedRequestWritesNothing ==
    [][\A p \in Procs :
          (procs[p].pc # "idle" /\ procs'[p].pc = "idle"
                                /\ outcome' = "BadRequest") =>
              (~Wrote(procs[p].n) /\ jobs' = jobs)]_vars

=============================================================================
